---- MODULE Spec2Model ----
(***************************************************************************)
(* Model of qtex::QIconSet (src/QIconSet.h): an icon sheet sliced into a   *)
(* row-major table of icons, looked up by linear index or by (col, row).   *)
(*                                                                         *)
(* Build modelled: release (QT_NO_DEBUG), where Q_ASSERT(x) expands to     *)
(* nothing; the asserts of getIcon and setup therefore have no effect.     *)
(*                                                                         *)
(* A pixmap is modelled by the region of the icon sheet whose pixels it    *)
(* holds, [x, y, w, h]; every pixel of the sheet is taken to be distinct,  *)
(* so two pixmaps have equal content exactly when their regions are equal. *)
(* A null pixmap has w = 0 and h = 0.                                      *)
(*                                                                         *)
(* getIcon returns a reference (const QIcon&); a result is modelled by the *)
(* object referred to: the member m_invalidIcon, the slot m_icons[at], or  *)
(* the outcome of indexing the vector outside [0, size) (undefined).       *)
(***************************************************************************)
EXTENDS Integers, Sequences, FiniteSets, TLC

\* ---- bounds of the model ----
MaxSrc  == 2    \* small sheets are 1..MaxSrc pixels wide / high
MaxCols == 3    \* colRow.x() ranges over 1..MaxCols
MaxRows == 2    \* colRow.y() ranges over 1..MaxRows
MaxCell == 1    \* explicit iconSize components range over 0..MaxCell

\* the sheets of the documented examples (90x40 and 91x41 with a 3x2 grid)
SampleSheets == {<<90, 40>>, <<91, 41>>}

VARIABLES
    pc,            \* "unconstructed" | "usable"
    args,          \* the constructor's arguments (history)
    m_iconset,     \* QPixmap: the original icon set
    m_icons,       \* std::vector<QIcon>: all extracted icons
    m_matrixSize,  \* QPoint: the icon set matrix size
    m_iconSize,    \* QPoint: the size of each icon
    last           \* the last query and what it returned

vars == <<pc, args, m_iconset, m_icons, m_matrixSize, m_iconSize, last>>

\* ---- Qt value types ----
QPoint(px, py) == [x |-> px, y |-> py]

\* QPoint::isNull(): both coordinates are 0
isNull(p) == p.x = 0 /\ p.y = 0

Max(a, b) == IF a >= b THEN a ELSE b
Min(a, b) == IF a <= b THEN a ELSE b

\* C++ integer division truncates toward zero
CDiv(a, b) ==
    IF (a >= 0) = (b > 0)
    THEN (IF a >= 0 THEN a ELSE -a) \div (IF b > 0 THEN b ELSE -b)
    ELSE -((IF a >= 0 THEN a ELSE -a) \div (IF b > 0 THEN b ELSE -b))

NullPixmap == [x |-> 0, y |-> 0, w |-> 0, h |-> 0]

QPixmap(pw, ph) == [x |-> 0, y |-> 0, w |-> pw, h |-> ph]

pixIsNull(p) == p.w = 0 \/ p.h = 0

\* QPixmap::copy(x, y, width, height): deep copy of the part of the pixmap
\* inside the rectangle; an empty rectangle copies the whole pixmap.
copy(p, rx, ry, rw, rh) ==
    IF pixIsNull(p) THEN NullPixmap
    ELSE IF rw <= 0 \/ rh <= 0 THEN p
    ELSE LET x1 == Max(rx, 0)
             y1 == Max(ry, 0)
             x2 == Min(rx + rw, p.w)
             y2 == Min(ry + rh, p.h)
         IN  IF x2 <= x1 \/ y2 <= y1 THEN NullPixmap
             ELSE [x |-> p.x + x1, y |-> p.y + y1, w |-> x2 - x1, h |-> y2 - y1]

\* Q_ASSERT(cond) in the release build: the condition is not evaluated and
\* the call goes on whatever its value
Q_ASSERT(cond) == TRUE

\* ---- references returned by getIcon ----
m_invalidIcon  == [ref |-> "m_invalidIcon"]
IconAt(i)      == [ref |-> "m_icons", at |-> i]
\* m_icons[i] with i outside [0, size): undefined behaviour; the build
\* either hands back a reference past the vector's storage or faults
OutOfRange(i)  == {[ref |-> "outside m_icons", at |-> i], [ref |-> "fault", at |-> i]}

\* std::vector::operator[] : the possible outcomes of m_icons[i]
Subscript(icons, i) ==
    IF 0 <= i /\ i < Len(icons) THEN {IconAt(i)} ELSE OutOfRange(i)

\* ---- setup() ----
AutoIconSize_roundUp(iconset, colRow) ==
    QPoint(CDiv(iconset.w + colRow.x - 1, colRow.x),
           CDiv(iconset.h + colRow.y - 1, colRow.y))

AutoIconSize_swapped(iconset, colRow) ==
    QPoint(CDiv(colRow.x, iconset.w), CDiv(colRow.y, iconset.h))

\* lines 230-231: the icon size derived from the sheet and the grid.  setup()
\* names the constructor's arguments iconSize and colRow there; they are read
\* as the members m_iconSize and m_matrixSize those arguments initialise.
AutoIconSize(iconset, colRow) ==
    QPoint(CDiv(iconset.w, colRow.x), CDiv(iconset.h, colRow.y))

RECURSIVE ColumnLoop(_, _, _, _, _, _)
\* lines 239-245: for(x = 0; x < m_matrixSize.x(); ++x) of row y
ColumnLoop(icons, iconset, matrixSize, iconSize, pos_iy, x) ==
    IF x < matrixSize.x
    THEN LET pos_ix == iconSize.x * x
             pmap   == copy(iconset, pos_ix, pos_iy, iconSize.x, iconSize.y)
         IN  ColumnLoop(Append(icons, pmap), iconset, matrixSize, iconSize, pos_iy, x + 1)
    ELSE icons

RECURSIVE RowLoop(_, _, _, _, _)
\* lines 236-246: for(y = 0; y < m_matrixSize.y(); ++y)
RowLoop(icons, iconset, matrixSize, iconSize, y) ==
    IF y < matrixSize.y
    THEN LET pos_iy == iconSize.y * y
         IN  RowLoop(ColumnLoop(icons, iconset, matrixSize, iconSize, pos_iy, 0),
                     iconset, matrixSize, iconSize, y + 1)
    ELSE icons

RECURSIVE ColumnMajorLoop(_, _, _, _, _)
ColumnMajorLoop(icons, iconset, matrixSize, iconSize, i) ==
    IF i < matrixSize.x * matrixSize.y
    THEN LET cx == i \div matrixSize.y
             cy == i % matrixSize.y
         IN  ColumnMajorLoop(
                 Append(icons, copy(iconset, iconSize.x * cx, iconSize.y * cy,
                                    iconSize.x, iconSize.y)),
                 iconset, matrixSize, iconSize, i + 1)
    ELSE icons

extractIcons_columnMajor(iconset, matrixSize, iconSize) ==
    ColumnMajorLoop(<<>>, iconset, matrixSize, iconSize, 0)

extractIcons_skipLastRow(iconset, matrixSize, iconSize) ==
    RowLoop(<<>>, iconset, matrixSize, iconSize, 1)

\* lines 234-246: the icon table extracted from the sheet
extractIcons(iconset, matrixSize, iconSize) ==
    RowLoop(<<>>, iconset, matrixSize, iconSize, 0)

setup_noNullCheck(iconset, matrixSize, iconSize, icons) ==
    LET size == IF isNull(iconSize) /\ ~pixIsNull(iconset)
                THEN AutoIconSize(iconset, matrixSize) ELSE iconSize
    IN  [m_iconSize |-> size,
         m_icons    |-> icons \o extractIcons(iconset, matrixSize, size)]

\* lines 219-247: the members setup() leaves behind
setup(iconset, matrixSize, iconSize, icons) ==
    IF pixIsNull(iconset)
    THEN [m_iconSize |-> iconSize, m_icons |-> icons]
    ELSE LET size == IF isNull(iconSize)
                     THEN AutoIconSize(iconset, matrixSize) ELSE iconSize
         IN  [m_iconSize |-> size,
              m_icons    |-> icons \o extractIcons(iconset, matrixSize, size)]

\* ---- queries (const member functions), as functions of the members ----
toIndex_swapped(matrixSize, col, row) == col * matrixSize.x + row

\* lines 254-257
toIndex(matrixSize, col, row) == row * matrixSize.x + col

getIcon_offByOne(icons, index) ==
    IF index > Len(icons) THEN {m_invalidIcon} ELSE Subscript(icons, index)

\* lines 115-123: the possible results of getIcon(index)
getIcon(icons, index) ==
    IF index >= Len(icons) THEN {m_invalidIcon} ELSE Subscript(icons, index)

\* lines 148-153: the possible results of getIcon(col, row)
getIconColRow(icons, matrixSize, col, row) ==
    Subscript(icons, toIndex(matrixSize, col, row))

\* lines 189-192: isValid(index)
isValid(icons, index) == index < Len(icons)

\* lines 178-181: isValid(col, row)
isValidColRow(icons, matrixSize, col, row) ==
    toIndex(matrixSize, col, row) < Len(icons)

\* lines 198-201
getIconSize(iconSize) == iconSize

\* lines 207-210: int(m_iconSize.x() * 0.5), truncated toward zero
getIconRadius(iconSize) == CDiv(iconSize.x, 2)

\* ---- inputs ----
Sources ==
    {NullPixmap} \cup
    {QPixmap(pw, ph) : pw \in 1..MaxSrc, ph \in 1..MaxSrc} \cup
    {QPixmap(wh[1], wh[2]) : wh \in SampleSheets}

Grids     == {QPoint(c, r) : c \in 1..MaxCols, r \in 1..MaxRows}
IconSizes == {QPoint(sw, sh) : sw \in 0..MaxCell, sh \in 0..MaxCell}
Indices   == -1 .. (MaxCols * MaxRows + 1)
Cols      == -1 .. MaxCols
Rows      == -1 .. MaxRows

NoArgs == [path |-> NullPixmap, colRow |-> QPoint(0, 0), iconSize |-> QPoint(0, 0)]
NoCall == [op |-> "none", index |-> 0, col |-> 0, row |-> 0, ret |-> [none |-> TRUE]]

Init ==
    /\ pc = "unconstructed"
    /\ args = NoArgs
    /\ m_iconset = NullPixmap
    /\ m_icons = <<>>
    /\ m_matrixSize = QPoint(0, 0)
    /\ m_iconSize = QPoint(0, 0)
    /\ last = NoCall

\* lines 50-58: QIconSet(path, colRow, iconSize): member initialisers, then setup()
Construct ==
    /\ pc = "unconstructed"
    /\ \E path \in Sources, colRow \in Grids, iconSize \in IconSizes :
          LET s == setup(path, colRow, iconSize, <<>>)
          IN  /\ args' = [path |-> path, colRow |-> colRow, iconSize |-> iconSize]
              /\ m_iconset' = path
              /\ m_matrixSize' = colRow
              /\ m_iconSize' = s.m_iconSize
              /\ m_icons' = s.m_icons
    /\ pc' = "usable"
    /\ UNCHANGED last

CallGetIcon ==
    /\ pc = "usable"
    /\ \E index \in Indices : \E r \in getIcon(m_icons, index) :
          /\ Q_ASSERT(isValid(m_icons, index))
          /\ last' = [op |-> "getIcon", index |-> index, col |-> 0, row |-> 0, ret |-> r]
    /\ UNCHANGED <<pc, args, m_iconset, m_icons, m_matrixSize, m_iconSize>>

CallGetIconColRow ==
    /\ pc = "usable"
    /\ \E col \in Cols, row \in Rows :
          \E r \in getIconColRow(m_icons, m_matrixSize, col, row) :
             /\ Q_ASSERT(isValidColRow(m_icons, m_matrixSize, col, row))
             /\ last' = [op |-> "getIconColRow", index |-> 0, col |-> col, row |-> row, ret |-> r]
    /\ UNCHANGED <<pc, args, m_iconset, m_icons, m_matrixSize, m_iconSize>>

CallIsValid ==
    /\ pc = "usable"
    /\ \E index \in Indices :
          last' = [op |-> "isValid", index |-> index, col |-> 0, row |-> 0,
                   ret |-> [bool |-> isValid(m_icons, index)]]
    /\ UNCHANGED <<pc, args, m_iconset, m_icons, m_matrixSize, m_iconSize>>

CallIsValidColRow ==
    /\ pc = "usable"
    /\ \E col \in Cols, row \in Rows :
          last' = [op |-> "isValidColRow", index |-> 0, col |-> col, row |-> row,
                   ret |-> [bool |-> isValidColRow(m_icons, m_matrixSize, col, row)]]
    /\ UNCHANGED <<pc, args, m_iconset, m_icons, m_matrixSize, m_iconSize>>

CallGetIconSize ==
    /\ pc = "usable"
    /\ last' = [op |-> "getIconSize", index |-> 0, col |-> 0, row |-> 0,
                ret |-> [point |-> getIconSize(m_iconSize)]]
    /\ UNCHANGED <<pc, args, m_iconset, m_icons, m_matrixSize, m_iconSize>>

CallGetIconRadius ==
    /\ pc = "usable"
    /\ last' = [op |-> "getIconRadius", index |-> 0, col |-> 0, row |-> 0,
                ret |-> [int |-> getIconRadius(m_iconSize)]]
    /\ UNCHANGED <<pc, args, m_iconset, m_icons, m_matrixSize, m_iconSize>>

Next ==
    \/ Construct
    \/ CallGetIcon
    \/ CallGetIconColRow
    \/ CallIsValid
    \/ CallIsValidColRow
    \/ CallGetIconSize
    \/ CallGetIconRadius

Spec == Init /\ [][Next]_vars


\* ---- shorthands for the properties ----
columns   == m_matrixSize.x
rows      == m_matrixSize.y
Usable    == pc = "usable"
FromSheet == pc = "usable" /\ ~pixIsNull(m_iconset)
FromNull  == pc = "usable" /\ pixIsNull(m_iconset)
AutoSized == isNull(args.iconSize)

C2_ColRowPastTableGivesSentinel ==
    (Usable /\ last.op = "getIconColRow"
            /\ last.row * columns + last.col >= Len(m_icons))
        => last.ret = m_invalidIcon

\* C3: for an icon set built from a sheet and every (col, row) inside the
\* grid, getIcon(col, row) returns the very table entry that
\* getIcon(row*columns + col) returns.
C3_IndexCoordinateConsistency ==
    (FromSheet /\ last.op = "getIconColRow"
               /\ 0 <= last.col /\ last.col < columns
               /\ 0 <= last.row /\ last.row < rows)
        => getIcon(m_icons, last.row * columns + last.col) = {last.ret}

C3_Witness ==
    /\ FromSheet
    /\ last.op = "getIconColRow"
    /\ last.col = 1 /\ last.row = 1
    /\ columns = 3 /\ rows = 2
    /\ last.ret = IconAt(4)

\* C4: after construction from a sheet, for every i in [0, columns*rows) the
\* table entry i is the copy of the sheet's rectangle of the cell size at
\* origin ((i mod columns) * cellWidth, (i div columns) * cellHeight): row-major
\* order.  Where that rectangle lies inside the sheet the entry holds exactly
\* its pixels.
C4_RowMajorExtraction ==
    FromSheet =>
      \A i \in 0 .. (columns * rows - 1) :
         LET ox == (i % columns) * m_iconSize.x
             oy == (i \div columns) * m_iconSize.y
         IN  /\ i < Len(m_icons)
             /\ m_icons[i + 1] = copy(m_iconset, ox, oy, m_iconSize.x, m_iconSize.y)
             /\ (/\ m_iconSize.x > 0 /\ m_iconSize.y > 0
                 /\ ox + m_iconSize.x <= m_iconset.w
                 /\ oy + m_iconSize.y <= m_iconset.h)
                  => m_icons[i + 1] =
                        [x |-> ox, y |-> oy, w |-> m_iconSize.x, h |-> m_iconSize.y]

C4_Witness ==
    /\ FromSheet
    /\ m_iconset = QPixmap(91, 41)
    /\ columns = 3 /\ rows = 2
    /\ Len(m_icons) = 6
    /\ m_icons[5] = [x |-> 30, y |-> 20, w |-> 30, h |-> 20]

\* C5 (as claimed): in every state after construction the table length is
\* columns * rows.
C5_LengthIsGridArea ==
    Usable => Len(m_icons) = columns * rows

\* C5 (amended): every state after construction from a sheet has a table of
\* length columns * rows, after construction from a null source the table is
\* empty, and no query changes the length.
C5_LengthFixedByConstruction ==
    [][ pc' = "usable" =>
          /\ Len(m_icons') = (IF pixIsNull(m_iconset') THEN 0
                              ELSE m_matrixSize'.x * m_matrixSize'.y)
          /\ pc = "usable" => Len(m_icons') = Len(m_icons) ]_vars

C5_Witness ==
    /\ FromSheet
    /\ last.op = "getIconRadius"
    /\ columns = 3 /\ rows = 2
    /\ Len(m_icons) = 6

\* C6: constructed from a null source, the table is empty: isValid(index)
\* is false for every index >= 0, isValid(col, row) is false for every
\* col >= 0 and row >= 0, and getIcon(index) returns m_invalidIcon for every
\* index >= 0.
C6_NullSourceAllInvalid ==
    FromNull =>
      /\ m_icons = <<>>
      /\ (last.op = "isValid" /\ last.index >= 0) => last.ret.bool = FALSE
      /\ (last.op = "isValidColRow" /\ last.col >= 0 /\ last.row >= 0)
            => last.ret.bool = FALSE
      /\ (last.op = "getIcon" /\ last.index >= 0) => last.ret = m_invalidIcon

C6_Witness ==
    /\ FromNull
    /\ last.op = "isValidColRow"
    /\ last.col = 0 /\ last.row = 0
    /\ last.ret.bool = FALSE

\* C7: with the null "auto" icon size and a sheet, the resolved icon size is
\* (sheetWidth div columns, sheetHeight div rows), truncated: 90x40 and 91x41
\* sheets with a 3x2 grid both give 30x20.
C7_AutoSizeTruncates ==
    (FromSheet /\ AutoSized) =>
      /\ m_iconSize = QPoint(m_iconset.w \div columns, m_iconset.h \div rows)
      /\ (m_iconset.w \in {90, 91} /\ m_iconset.h \in {40, 41}
             /\ columns = 3 /\ rows = 2) => m_iconSize = QPoint(30, 20)
      /\ last.op = "getIconSize" => last.ret.point = m_iconSize

C7_Witness ==
    /\ FromSheet /\ AutoSized
    /\ m_iconset = QPixmap(91, 41)
    /\ columns = 3 /\ rows = 2
    /\ last.op = "getIconSize"
    /\ last.ret.point = QPoint(30, 20)

\* C8 (as claimed): after construction from a sheet with columns >= 1 and
\* rows >= 1 the resolved icon size has width > 0 and height > 0.
C8_CellSizePositive ==
    (FromSheet /\ columns >= 1 /\ rows >= 1)
        => (m_iconSize.x > 0 /\ m_iconSize.y > 0)

\* C8 (amended): after construction from a sheet with columns >= 1 and
\* rows >= 1, an auto-derived icon size has width > 0 exactly when
\* columns <= sheetWidth and height > 0 exactly when rows <= sheetHeight;
\* an explicit (non-null) icon size is kept as given.
C8_CellSizePositiveWhenGridFits ==
    (FromSheet /\ columns >= 1 /\ rows >= 1) =>
      /\ AutoSized =>
            /\ (m_iconSize.x > 0) <=> (columns <= m_iconset.w)
            /\ (m_iconSize.y > 0) <=> (rows <= m_iconset.h)
            /\ m_iconSize.x >= 0 /\ m_iconSize.y >= 0
      /\ ~AutoSized => m_iconSize = args.iconSize

C8_Witness ==
    /\ FromSheet /\ AutoSized
    /\ m_iconset = QPixmap(2, 2)
    /\ columns = 2 /\ rows = 2
    /\ m_iconSize = QPoint(1, 1)

\* C9 (as claimed): for every integer index, negative ones included,
\* isValid(index) is true exactly when 0 <= index < table length.
C9_IsValidIffInTable ==
    (Usable /\ last.op = "isValid")
        => (last.ret.bool <=> (0 <= last.index /\ last.index < Len(m_icons)))

\* C10 (as claimed): isValid(col, row) = true implies 0 <= col < columns and
\* 0 <= row < rows.
C10_IsValidColRowImpliesInGrid ==
    (Usable /\ last.op = "isValidColRow" /\ last.ret.bool)
        => /\ 0 <= last.col /\ last.col < columns
           /\ 0 <= last.row /\ last.row < rows

====
